---- MODULE Spec2Model ----
(***************************************************************************)
(* Model of skills/agent-notifier/notify.py: the event normaliser          *)
(* (parse_input), the configuration loader (load_config), the channel      *)
(* selection and the concurrent dispatcher of main().                      *)
(*                                                                         *)
(* Python values coming from JSON are records [t |-> tag, v |-> content]:  *)
(*   t = "str"  : v is the text                                            *)
(*   t = "num"  : v is the decimal text of the number                      *)
(*   t = "bool" : v is "true" or "false"                                   *)
(*   t = "null" : v is ""                    (Python None)                 *)
(*   t = "list" : v is a sequence of values                                *)
(*   t = "obj"  : v is a function from keys to values (Python dict)        *)
(***************************************************************************)
EXTENDS Integers, Sequences, FiniteSets, TLC

VARIABLES
    stdin,      \* the text on standard input, a sequence of segments
    argv,       \* sys.argv, the script name first
    fs,         \* the two configuration paths: what each holds
    system,     \* platform.system()
    pc,         \* position of main()
    ret,        \* main()'s return value once it returned
    exc,        \* the exception main() raised, "" when none
    event_info, \* the event parse_input returned
    config,     \* the value load_config returned
    enabled,    \* the list of (name, cfg) pairs main() selected
    nsub,       \* how many work items pool.map has submitted
    queue,      \* the pool's work queue: (name, cfg) pairs and the wake-up item
    idle,       \* the pool's idle semaphore
    shut,       \* the pool's shutdown flag
    workers,    \* worker w |-> "unborn", "waiting", "running", "exited"
    job,        \* worker w |-> the channel it is delivering to, "" when none
    status,     \* channel |-> "none", "pending", "running", "done", "failed"
    calls,      \* channel |-> number of times its sender was invoked
    gotev,      \* channel |-> the event its sender received
    gotcfg,     \* channel |-> the configuration entry its sender received
    io,         \* channels whose sender started an external operation
    stderr,     \* lines written to the diagnostic stream
    stdout,     \* lines written to standard output
    hints,      \* the payload handed to the project resolution
    procdir,    \* os.getcwd()
    probe,      \* directory |-> what the version-control probe does there
    project,    \* the resolved project name
    title,      \* the title a sender formatted
    body,       \* the body a sender formatted
    filetext,   \* auto_blog_cover: the text main() reads from the markdown file
    fields_to_update, \* auto_blog_cover: the frontmatter fields to update
    url,        \* auto_blog_cover: the URL of the uploaded cover
    content     \* auto_blog_cover: the text main() writes back to the file

vars == <<stdin, argv, fs, system, pc, ret, exc, event_info, config, enabled, nsub,
          queue, idle, shut, workers, job, status, calls, gotev, gotcfg, io,
          stderr, stdout, hints, procdir, probe, project, title, body,
          filetext, fields_to_update, url, content>>

(***************************************************************************)
(* Bounds of the model.                                                    *)
(***************************************************************************)
MaxKeys == 3        \* keys in a generated payload object
MaxPad == 1         \* whitespace characters before and after the input
MaxArgs == 2        \* command-line arguments after the script name
MaxChannels == 2    \* entries in a generated "channels" table
MaxLines == 3       \* lines of a markdown file
MaxEnabled == 2     \* enabled channels in the runs checked for termination

(***************************************************************************)
(* Python values.                                                          *)
(***************************************************************************)
Str(s) == [t |-> "str", v |-> s]
Num(n) == [t |-> "num", v |-> ToString(n)]
Bool(b) == [t |-> "bool", v |-> IF b THEN "true" ELSE "false"]
None == [t |-> "null", v |-> ""]
List(s) == [t |-> "list", v |-> s]
Obj(f) == [t |-> "obj", v |-> f]
EmptyDict == Obj([k \in {} |-> None])

IsStr(x) == x.t = "str"
IsDict(x) == x.t = "obj"
IsStrEq(x, s) == x.t = "str" /\ x.v = s

\* bool(x)
Truthy(x) ==
    CASE x.t = "str" -> x.v # ""
      [] x.t = "num" -> x.v # "0"
      [] x.t = "bool" -> x.v = "true"
      [] x.t = "null" -> FALSE
      [] x.t = "list" -> Len(x.v) > 0
      [] x.t = "obj" -> DOMAIN x.v # {}

\* hash(x) succeeds
Hashable(x) == x.t \notin {"list", "obj"}

\* key in d, d.get(key, default), for a dict d
HasKey(d, k) == k \in DOMAIN d.v
Get(d, k, default) == IF k \in DOMAIN d.v THEN d.v[k] ELSE default

(***************************************************************************)
(* Text helpers: Python str methods on TLA+ strings.                       *)
(***************************************************************************)
CharAt(s, i) == SubSeq(s, i, i)

\* sub in s
Contains(s, sub) ==
    \E i \in 1..(Len(s) - Len(sub) + 1) : SubSeq(s, i, i + Len(sub) - 1) = sub

UpperChars == "ABCDEFGHIJKLMNOPQRSTUVWXYZ"
LowerChars == "abcdefghijklmnopqrstuvwxyz"
LowerChar(c) ==
    IF \E i \in 1..Len(UpperChars) : CharAt(UpperChars, i) = c
    THEN CharAt(LowerChars, CHOOSE i \in 1..Len(UpperChars) : CharAt(UpperChars, i) = c)
    ELSE c

\* s.lower()
RECURSIVE Lower(_)
Lower(s) == IF s = "" THEN "" ELSE LowerChar(CharAt(s, 1)) \o Lower(SubSeq(s, 2, Len(s)))

\* os.path.basename(p): what follows the last "/"
Basename(p) ==
    LET slashes == {i \in 1..Len(p) : CharAt(p, i) = "/"}
    IN  IF slashes = {} THEN p
        ELSE SubSeq(p, (CHOOSE i \in slashes : \A j \in slashes : j <= i) + 1, Len(p))

\* sep.join(words)
RECURSIVE Join(_, _)
Join(sep, words) ==
    IF Len(words) = 0 THEN ""
    ELSE IF Len(words) = 1 THEN words[1]
    ELSE words[1] \o sep \o Join(sep, Tail(words))

(***************************************************************************)
(* Rendering of values as text.                                            *)
(***************************************************************************)
\* the order in which the keys of a payload appear in its text
KeyOrder ==
    <<"notification_type", "message", "reason", "toolName", "toolResult",
      "resultType", "source", "hook_event_name", "status", "tool_name",
      "file_path", "agent", "type", "agent-turn-complete", "platform",
      "event_type", "cwd", "some">>

KeysOf(d) == SelectSeq(KeyOrder, LAMBDA k : k \in DOMAIN d.v)

\* json.dumps(x, ensure_ascii=False)
RECURSIVE Dumps(_)
Dumps(x) ==
    CASE x.t = "str" -> "\"" \o x.v \o "\""
      [] x.t = "num" -> x.v
      [] x.t = "bool" -> x.v
      [] x.t = "null" -> "null"
      [] x.t = "list" ->
            "[" \o Join(", ", [i \in 1..Len(x.v) |-> Dumps(x.v[i])]) \o "]"
      [] x.t = "obj" ->
            LET ks == KeysOf(x)
            IN  "{" \o Join(", ", [i \in 1..Len(ks) |->
                        "\"" \o ks[i] \o "\": " \o Dumps(x.v[ks[i]])]) \o "}"

\* repr(x)
RECURSIVE PyRepr(_)
PyRepr(x) ==
    CASE x.t = "str" -> "'" \o x.v \o "'"
      [] x.t = "num" -> x.v
      [] x.t = "bool" -> IF x.v = "true" THEN "True" ELSE "False"
      [] x.t = "null" -> "None"
      [] x.t = "list" ->
            "[" \o Join(", ", [i \in 1..Len(x.v) |-> PyRepr(x.v[i])]) \o "]"
      [] x.t = "obj" ->
            LET ks == KeysOf(x)
            IN  "{" \o Join(", ", [i \in 1..Len(ks) |->
                        "'" \o ks[i] \o "': " \o PyRepr(x.v[ks[i]])]) \o "}"

\* str(x), what an f-string puts for {x}
PyStr(x) == IF x.t = "str" THEN x.v ELSE PyRepr(x)

(***************************************************************************)
(* Standard input.  The text is a sequence of segments: a whitespace       *)
(* character, a word that is not JSON, or one JSON document.               *)
(***************************************************************************)
Ws == [t |-> "ws", v |-> Str(" ")]
Word(w) == [t |-> "text", v |-> Str(w)]
Doc(x) == [t |-> "json", v |-> x]

\* the characters of a text
RECURSIVE TextOf(_)
TextOf(segs) ==
    IF Len(segs) = 0 THEN ""
    ELSE (IF Head(segs).t = "json" THEN Dumps(Head(segs).v) ELSE Head(segs).v.v)
         \o TextOf(Tail(segs))

\* str.strip()
RECURSIVE LStrip(_)
LStrip(segs) ==
    IF Len(segs) > 0 /\ Head(segs).t = "ws" THEN LStrip(Tail(segs)) ELSE segs
RECURSIVE RStrip(_)
RStrip(segs) ==
    IF Len(segs) > 0 /\ segs[Len(segs)].t = "ws"
    THEN RStrip(SubSeq(segs, 1, Len(segs) - 1)) ELSE segs
\* mutant: only the leading whitespace is removed
StripLeftOnly(segs) == LStrip(segs)
Strip(segs) == RStrip(LStrip(segs))

\* _read_stdin(): "" on a terminal or when reading fails
_read_stdin(in) == IF in.mode = "pipe" THEN in.segs ELSE <<>>

\* json.loads(raw) succeeds: the text is exactly one JSON document
JsonLoadsOk(raw) == Len(raw) = 1 /\ raw[1].t = "json"
JsonLoads(raw) == raw[1].v

(***************************************************************************)
(* parse_input().  The result is either a returned event or a raised       *)
(* exception.                                                              *)
(***************************************************************************)
Event(p, e, m) == [platform |-> p, event |-> e, message |-> m]
NoEvent == Event("", None, None)
Return(ev) == [ok |-> TRUE, exc |-> "", ev |-> ev]
Raise(e) == [ok |-> FALSE, exc |-> e, ev |-> NoEvent]

\* key in data: defined for a dict (key lookup), a str (substring) and a
\* list (element); any other value raises TypeError
InDefined(data) == data.t \in {"obj", "str", "list"}
In(data, key) ==
    CASE data.t = "obj" -> key \in DOMAIN data.v
      [] data.t = "str" -> Contains(data.v, key)
      [] data.t = "list" -> \E i \in 1..Len(data.v) : IsStrEq(data.v[i], key)
      [] OTHER -> FALSE

\* --- Claude Code ---
\* The two fixed texts start with an emoji in the source and the first holds
\* a long dash; they are written here in ASCII.
IdlePromptText == "(check) Task completed -- waiting for your input"
PermissionPromptText == "(lock) Permission required"
\* mutants: the operands of `msg or ntype` swapped; a provided message
\* preferred to the template
ClaudeCodeTypeFirst(data) ==
    LET ntype == data.v["notification_type"]
        msg == Get(data, "message", Str(""))
        event_msg ==
            IF IsStrEq(ntype, "idle_prompt")
            THEN Str(IdlePromptText)
            ELSE IF IsStrEq(ntype, "permission_prompt")
            THEN Str(PermissionPromptText)
            ELSE IF Truthy(ntype) THEN ntype ELSE msg
    IN  Return(Event("claude_code", ntype, event_msg))
ClaudeCodeMessageFirst(data) ==
    LET ntype == data.v["notification_type"]
        msg == Get(data, "message", Str(""))
        event_msg ==
            IF Truthy(msg) THEN msg
            ELSE IF IsStrEq(ntype, "idle_prompt")
            THEN Str(IdlePromptText)
            ELSE IF IsStrEq(ntype, "permission_prompt")
            THEN Str(PermissionPromptText)
            ELSE ntype
    IN  Return(Event("claude_code", ntype, event_msg))
ClaudeCode(data) ==
    LET ntype == data.v["notification_type"]
        msg == Get(data, "message", Str(""))
        event_msg ==
            IF IsStrEq(ntype, "idle_prompt")
            THEN Str(IdlePromptText)
            ELSE IF IsStrEq(ntype, "permission_prompt")
            THEN Str(PermissionPromptText)
            ELSE IF Truthy(msg) THEN msg ELSE ntype
    IN  Return(Event("claude_code", ntype, event_msg))

\* --- Copilot CLI: sessionEnd ---
reason_messages(reason) ==
    CASE IsStrEq(reason, "complete") -> "Task completed"
      [] IsStrEq(reason, "error") -> "Session ended with error"
      [] IsStrEq(reason, "abort") -> "Session aborted"
      [] IsStrEq(reason, "timeout") -> "Session timed out"
      [] IsStrEq(reason, "user_exit") -> "User exited session"
      [] OTHER -> "Session ended (" \o PyStr(reason) \o ")"

CopilotSessionEnd(data) ==
    LET reason == data.v["reason"]
    IN  IF ~Hashable(reason) THEN Raise("TypeError")
        ELSE Return(Event("copilot_cli", Str("sessionEnd"), Str(reason_messages(reason))))

\* --- Copilot CLI: postToolUse ---
result_messages(result_type, tool) ==
    CASE IsStrEq(result_type, "success") -> "Tool '" \o PyStr(tool) \o "' completed successfully"
      [] IsStrEq(result_type, "failure") -> "Tool '" \o PyStr(tool) \o "' failed"
      [] IsStrEq(result_type, "denied") -> "Tool '" \o PyStr(tool) \o "' was denied"
      [] OTHER -> "Tool '" \o PyStr(tool) \o "' finished"

CopilotPostToolUse(data) ==
    LET tool == data.v["toolName"]
        result == data.v["toolResult"]
        result_type == IF IsDict(result) THEN Get(result, "resultType", Str("")) ELSE Str("")
    IN  IF ~Hashable(result_type) THEN Raise("TypeError")
        ELSE Return(Event("copilot_cli", Str("postToolUse"),
                          Str(result_messages(result_type, tool))))

\* --- Copilot CLI: sessionStart ---
\* mutant: the message does not name the source
CopilotSessionStartUnnamed(data) ==
    Return(Event("copilot_cli", Str("sessionStart"), Str("Session started")))
CopilotSessionStart(data) ==
    LET source == data.v["source"]
    IN  Return(Event("copilot_cli", Str("sessionStart"),
                     Str("Session started (" \o PyStr(source) \o ")")))

\* --- Cursor / other platforms (hook_event_name) ---
\* mutant: the editor name is matched with its case
HookEventCaseSensitive(data) ==
    LET hook_event == Get(data, "hook_event_name", Str(""))
        status_ == Get(data, "status", Str(""))
        tool == Get(data, "tool_name", Str("tool"))
        file == Get(data, "file_path", Str("file"))
        agent == Get(data, "agent", Str(""))
        plat == IF Contains(agent.v, "cursor") THEN "cursor" ELSE "copilot_cli"
    IN  IF IsStrEq(hook_event, "sessionEnd") \/ IsStrEq(hook_event, "stop")
        THEN IF ~IsStr(agent) THEN Raise("AttributeError")
             ELSE Return(Event(plat, hook_event,
                    IF IsStrEq(status_, "completed") THEN Str("Task completed")
                    ELSE Str("Session ended")))
        ELSE IF IsStrEq(hook_event, "postToolUse")
        THEN IF ~IsStr(agent) THEN Raise("AttributeError")
             ELSE Return(Event(plat, hook_event, Str("Tool '" \o PyStr(tool) \o "' finished")))
        ELSE IF IsStrEq(hook_event, "afterFileEdit")
        THEN IF ~IsStr(file) THEN Raise("TypeError")
             ELSE IF ~IsStr(agent) THEN Raise("AttributeError")
             ELSE Return(Event(plat, hook_event, Str("Edited " \o Basename(file.v))))
        ELSE IF ~IsStr(agent) THEN Raise("AttributeError")
             ELSE Return(Event(plat, hook_event, hook_event))
HookEvent(data) ==
    LET hook_event == Get(data, "hook_event_name", Str(""))
        status_ == Get(data, "status", Str(""))
        tool == Get(data, "tool_name", Str("tool"))
        file == Get(data, "file_path", Str("file"))
        agent == Get(data, "agent", Str(""))
        plat == IF Contains(Lower(agent.v), "cursor") THEN "cursor" ELSE "copilot_cli"
    IN  IF IsStrEq(hook_event, "sessionEnd") \/ IsStrEq(hook_event, "stop")
        THEN IF ~IsStr(agent) THEN Raise("AttributeError")
             ELSE Return(Event(plat, hook_event,
                    IF IsStrEq(status_, "completed") THEN Str("Task completed")
                    ELSE Str("Session ended")))
        ELSE IF IsStrEq(hook_event, "postToolUse")
        THEN IF ~IsStr(agent) THEN Raise("AttributeError")
             ELSE Return(Event(plat, hook_event, Str("Tool '" \o PyStr(tool) \o "' finished")))
        ELSE IF IsStrEq(hook_event, "afterFileEdit")
        THEN IF ~IsStr(file) THEN Raise("TypeError")
             ELSE IF ~IsStr(agent) THEN Raise("AttributeError")
             ELSE Return(Event(plat, hook_event, Str("Edited " \o Basename(file.v))))
        ELSE IF ~IsStr(agent) THEN Raise("AttributeError")
             ELSE Return(Event(plat, hook_event, hook_event))

\* --- Codex ---
IsCodex(data) ==
    HasKey(data, "agent-turn-complete")
    \/ IsStrEq(Get(data, "type", None), "agent-turn-complete")
Codex(data) ==
    Return(Event("codex", Str("agent-turn-complete"),
                 Get(data, "message", Str("Agent turn completed"))))

\* Fallback
Fallback(data) ==
    Return(Event("unknown", Str("notification"), Get(data, "message", Str(Dumps(data)))))

\* the field signatures of the two Copilot CLI detectors; the mutants are
\* the signatures with a condition dropped or narrowed
IsCopilotSessionEndAnyTool(data) == In(data, "reason")
IsCopilotSessionEndKnownReason(data) ==
    /\ In(data, "reason") /\ ~In(data, "toolName")
    /\ IsDict(data)
    /\ \E r \in {"complete", "error", "abort", "timeout", "user_exit"} :
           IsStrEq(data.v["reason"], r)
IsCopilotSessionEnd(data) == In(data, "reason") /\ ~In(data, "toolName")
IsCopilotPostToolUse(data) == In(data, "toolName") /\ In(data, "toolResult")

\* parse_input() from the parsed document on: the detectors in code order
ParseData(data) ==
    IF ~InDefined(data) THEN Raise("TypeError")
    ELSE IF In(data, "notification_type")
    THEN IF IsDict(data) THEN ClaudeCode(data) ELSE Raise("TypeError")
    ELSE IF IsCopilotSessionEnd(data)
    THEN IF IsDict(data) THEN CopilotSessionEnd(data) ELSE Raise("TypeError")
    ELSE IF IsCopilotPostToolUse(data)
    THEN IF IsDict(data) THEN CopilotPostToolUse(data) ELSE Raise("TypeError")
    ELSE IF In(data, "source") /\ ~In(data, "toolName") /\ ~In(data, "notification_type")
    THEN IF IsDict(data) THEN CopilotSessionStart(data) ELSE Raise("TypeError")
    ELSE IF ~IsDict(data) THEN Raise("AttributeError")
    ELSE IF Truthy(Get(data, "hook_event_name", Str(""))) THEN HookEvent(data)
    ELSE IF IsCodex(data) THEN Codex(data)
    ELSE Fallback(data)

\* mutant: the arguments win whenever there are any
parse_inputArgsFirst(in, args) ==
    LET raw == Strip(_read_stdin(in))
    IN  IF Len(args) > 1
        THEN Return(Event("aider", Str("notification"), Str(Join(" ", Tail(args)))))
        ELSE IF Len(raw) = 0
        THEN Return(Event("unknown", Str("notification"), Str("")))
        ELSE IF ~JsonLoadsOk(raw)
        THEN Return(Event("unknown", Str("notification"), Str(TextOf(raw))))
        ELSE ParseData(JsonLoads(raw))
parse_input(in, args) ==
    LET raw == Strip(_read_stdin(in))
    IN  IF Len(raw) = 0 /\ Len(args) > 1
        THEN Return(Event("aider", Str("notification"), Str(Join(" ", Tail(args)))))
        ELSE IF Len(raw) = 0
        THEN Return(Event("unknown", Str("notification"), Str("")))
        ELSE IF ~JsonLoadsOk(raw)
        THEN Return(Event("unknown", Str("notification"), Str(TextOf(raw))))
        ELSE ParseData(JsonLoads(raw))

(***************************************************************************)
(* The inputs the model draws from.                                        *)
(***************************************************************************)
\* the top-level keys parse_input looks at, in text order, and two it ignores
PayloadKeys ==
    <<"notification_type", "message", "reason", "toolName", "toolResult",
      "source", "hook_event_name", "status", "tool_name", "file_path",
      "agent", "type", "agent-turn-complete", "platform", "event_type",
      "cwd", "some">>

ResultObj(r) == Obj("resultType" :> Str(r))

Vals(k) ==
    CASE k = "notification_type" ->
            {Str("idle_prompt"), Str("permission_prompt"), Str("custom_type"), Str(""), None}
      [] k = "message" -> {Str("Done"), Str("")}
      [] k = "reason" -> {Str("complete"), Str("weird"), List(<<>>)}
      [] k = "toolName" -> {Str("bash"), None}
      [] k = "toolResult" -> {ResultObj("denied"), ResultObj("success"), EmptyDict, Str("ok")}
      [] k = "source" -> {Str("terminal")}
      [] k = "hook_event_name" ->
            {Str("stop"), Str("postToolUse"), Str("afterFileEdit"), Str("custom"),
             Str(""), Num(5)}
      [] k = "status" -> {Str("completed"), Str("failed")}
      [] k = "tool_name" -> {Str("edit")}
      [] k = "file_path" -> {Str("/a/b/main.go"), Num(3)}
      [] k = "agent" -> {Str("Cursor IDE"), Str("copilot"), Num(7)}
      [] k = "type" -> {Str("agent-turn-complete"), Str("other")}
      [] k = "agent-turn-complete" -> {Bool(TRUE)}
      [] k = "platform" -> {Str("opencode")}
      [] k = "event_type" -> {Str("session.idle"), Str("other")}
      [] k = "cwd" -> {Str("/dev/my-project")}
      [] k = "some" -> {Str("unknown")}

\* the dicts over the keys from position i on that hold at most n keys
RECURSIVE DictsFrom(_, _)
DictsFrom(i, n) ==
    IF i > Len(PayloadKeys) \/ n = 0 THEN {[k \in {} |-> None]}
    ELSE DictsFrom(i + 1, n)
         \cup {(PayloadKeys[i] :> x) @@ g : x \in Vals(PayloadKeys[i]), g \in DictsFrom(i + 1, n - 1)}

GeneratedObjects == {Obj(f) : f \in DictsFrom(1, MaxKeys)}

\* payloads of the documentation and the tests, and overlaps of detectors
ScenarioObjects ==
    { Obj("notification_type" :> Str("idle_prompt") @@ "message" :> Str("Done")),
      Obj("toolName" :> Str("bash") @@ "toolResult" :> ResultObj("denied")),
      Obj("toolName" :> Str("bash") @@ "toolResult" :> ResultObj("success")
          @@ "reason" :> Str("complete") @@ "source" :> Str("terminal")),
      Obj("toolName" :> Str("bash") @@ "toolResult" :> ResultObj("success")
          @@ "hook_event_name" :> Str("stop")),
      Obj("hook_event_name" :> Str("afterFileEdit") @@ "file_path" :> Str("/a/b/main.go")
          @@ "agent" :> Str("Cursor IDE")),
      Obj("hook_event_name" :> Str("stop") @@ "status" :> Str("completed")
          @@ "agent" :> Str("cursor")),
      Obj("platform" :> Str("opencode") @@ "event_type" :> Str("session.idle")
          @@ "message" :> Str("Session completed")),
      Obj("type" :> Str("agent-turn-complete") @@ "message" :> Str("Done")),
      Obj("some" :> Str("unknown") @@ "cwd" :> Str("/dev/my-project")) }

\* valid JSON that is not an object
NonObjects ==
    { Num(5), None, Bool(TRUE), Str("hello"), Str("no reason"),
      List(<<>>), List(<<Str("notification_type")>>) }

PayloadObjects == GeneratedObjects \cup ScenarioObjects

Pad(n) == [i \in 1..n |-> Ws]
Pipe(segs) == [mode |-> "pipe", segs |-> segs]

\* the input texts tried with every padding and every argument list
SmallBodies ==
    { <<>>, <<Word("plain")>>, <<Word("plain"), Ws, Word("text")>>, <<Word("{oops")>> }
    \cup {<<Doc(x)>> : x \in NonObjects \cup ScenarioObjects}

SmallStdins ==
    {Pipe(Pad(l) \o b \o Pad(r)) : l \in 0..MaxPad, r \in 0..MaxPad, b \in SmallBodies}
    \cup {[mode |-> m, segs |-> <<Word("typed")>>] : m \in {"tty", "error"}}

\* every generated object, unpadded
BulkStdins == {Pipe(<<Doc(x)>>) : x \in GeneratedObjects}

ArgWords == <<"Build", "finished", "now", "ok">>
Argvs == {<<"notify.py">> \o SubSeq(ArgWords, 1, n) : n \in 0..MaxArgs}

(***************************************************************************)
(* Configuration: CONFIG_SEARCH_PATHS, load_config() and the selection of  *)
(* the enabled channels in main().                                         *)
(***************************************************************************)
CONFIG_SEARCH_PATHS == <<"user", "bundled">>

Absent == [exists |-> FALSE, segs |-> <<>>]
File(segs) == [exists |-> TRUE, segs |-> segs]

\* the in-memory default of load_config()
DefaultConfig ==
    Obj("channels" :> Obj(
        "sound" :> Obj("enabled" :> Bool(TRUE)
                       @@ "file" :> Str("/System/Library/Sounds/Glass.aiff"))
        @@ "macos_notification" :> Obj("enabled" :> Bool(TRUE))))

Loaded(x) == [ok |-> TRUE, exc |-> "", val |-> x]
LoadFailed(e) == [ok |-> FALSE, exc |-> e, val |-> None]

\* json.load(f) of one file
LoadFile(f) ==
    IF JsonLoadsOk(f.segs) THEN Loaded(JsonLoads(f.segs)) ELSE LoadFailed("JSONDecodeError")

\* mutant: the last existing path wins
load_configLastWins(files) ==
    LET found == {i \in 1..Len(CONFIG_SEARCH_PATHS) : files[CONFIG_SEARCH_PATHS[i]].exists}
    IN  IF found = {} THEN Loaded(DefaultConfig)
        ELSE LoadFile(files[CONFIG_SEARCH_PATHS[CHOOSE i \in found : \A j \in found : j <= i]])
load_config(files) ==
    LET found == {i \in 1..Len(CONFIG_SEARCH_PATHS) : files[CONFIG_SEARCH_PATHS[i]].exists}
    IN  IF found = {} THEN Loaded(DefaultConfig)
        ELSE LoadFile(files[CONFIG_SEARCH_PATHS[CHOOSE i \in found : \A j \in found : i <= j]])

\* Map channel name -> sender function: the names that have a sender
CHANNEL_SENDERS ==
    {"sound", "macos_notification", "telegram", "email", "slack", "discord"}

\* the order in which the entries of a "channels" table appear in its text
ChannelOrder ==
    <<"sound", "macos_notification", "telegram", "email", "slack", "discord", "pager">>
ChannelNames == {ChannelOrder[i] : i \in 1..Len(ChannelOrder)}

Selected(names) == [ok |-> TRUE, exc |-> "", list |-> names]
SelectFailed(e) == [ok |-> FALSE, exc |-> e, list |-> <<>>]

\* the test without the enabled flag, and without the table of senders
IsEnabledIgnoresFlag(name, cfg) == name \in CHANNEL_SENDERS
IsEnabledIgnoresKnown(name, cfg) == Truthy(Get(cfg, "enabled", None))

\* the test of the list comprehension of main()
IsEnabled(name, cfg) == Truthy(Get(cfg, "enabled", None)) /\ name \in CHANNEL_SENDERS

\* channels = config.get("channels", {}) and the list comprehension: the
\* names of the enabled channels in table order (the pair's cfg is
\* channels[name])
SelectEnabled(cfg) ==
    IF ~IsDict(cfg) THEN SelectFailed("AttributeError")
    ELSE LET channels == Get(cfg, "channels", EmptyDict)
         IN  IF ~IsDict(channels) THEN SelectFailed("AttributeError")
             ELSE IF \E n \in DOMAIN channels.v : ~IsDict(channels.v[n])
             THEN SelectFailed("AttributeError")
             ELSE Selected(SelectSeq(ChannelOrder,
                     LAMBDA n : n \in DOMAIN channels.v /\ IsEnabled(n, channels.v[n])))

ChannelsOf(cfg) == Get(cfg, "channels", EmptyDict)

(***************************************************************************)
(* The configurations the model draws from.                                *)
(***************************************************************************)
RequiredFields(name) ==
    CASE name = "sound" -> "file" :> Str("/tmp/ding.aiff")
      [] name = "telegram" -> "bot_token" :> Str("T0K") @@ "chat_id" :> Str("42")
      [] name = "email" ->
            "smtp_host" :> Str("smtp.test.com") @@ "username" :> Str("user@test.com")
            @@ "password" :> Str("pass") @@ "to_addr" :> Str("to@test.com")
      [] name = "slack" -> "webhook_url" :> Str("https://hooks.slack.test/x")
      [] name = "discord" -> "webhook_url" :> Str("https://discord.test/x")
      [] OTHER -> [k \in {} |-> None]

Enabled(name) == Obj("enabled" :> Bool(TRUE) @@ RequiredFields(name))

EntryVals(name) ==
    { Enabled(name),
      Obj("enabled" :> Bool(TRUE)),
      Obj("enabled" :> Bool(FALSE) @@ RequiredFields(name)),
      EmptyDict,
      Str("on") }

\* the tables over the names from position i on that hold at most n entries
RECURSIVE TablesFrom(_, _)
TablesFrom(i, n) ==
    IF i > Len(ChannelOrder) \/ n = 0 THEN {[k \in {} |-> None]}
    ELSE TablesFrom(i + 1, n)
         \cup {(ChannelOrder[i] :> x) @@ g : x \in EntryVals(ChannelOrder[i]), g \in TablesFrom(i + 1, n - 1)}

WithChannels(x) == <<Doc(Obj("channels" :> x))>>

MalformedContents ==
    { <<Word("garbage")>>, <<Doc(List(<<>>))>>, <<Doc(EmptyDict)>>,
      WithChannels(None), WithChannels(List(<<>>)) }

\* tables with three enabled channels next to a disabled and an unknown one
ScenarioTables ==
    { "telegram" :> Enabled("telegram") @@ "email" :> Enabled("email")
        @@ "slack" :> Enabled("slack") @@ "discord" :> Obj("enabled" :> Bool(FALSE))
        @@ "pager" :> Enabled("pager"),
      "sound" :> Enabled("sound") @@ "macos_notification" :> Enabled("macos_notification")
        @@ "discord" :> Obj("enabled" :> Bool(TRUE)),
      "telegram" :> Obj("enabled" :> Bool(TRUE) @@ "bot_token" :> Str("T0K")
                        @@ "chat_id" :> Str(""))
        @@ "email" :> Obj("enabled" :> Bool(TRUE) @@ "smtp_host" :> Str("smtp.test.com")
                          @@ "username" :> Str("user@test.com") @@ "password" :> Str("pass"))
        @@ "slack" :> Obj("enabled" :> Bool(TRUE) @@ "webhook_url" :> Str("")) }

TableContents ==
    {WithChannels(Obj(t)) : t \in TablesFrom(1, MaxChannels) \cup ScenarioTables}

\* the bundled notify-config.json
BundledTemplate ==
    WithChannels(Obj("sound" :> Obj("enabled" :> Bool(TRUE) @@ RequiredFields("sound"))
                     @@ "slack" :> Obj("enabled" :> Bool(FALSE))))

FileSystems ==
    {[user |-> u, bundled |-> Absent] :
        u \in {Absent} \cup {File(c) : c \in MalformedContents \cup TableContents}}
    \cup {[user |-> u, bundled |-> File(BundledTemplate)] :
        u \in {Absent, File(<<Word("garbage")>>),
               File(WithChannels(Obj("telegram" :> Obj("enabled" :> Bool(TRUE)))))}}

\* the inputs of the runs of main()
MainInputs ==
    {<<Pipe(<<>>), a>> : a \in Argvs}
    \cup {<<Pipe(<<Doc(x)>>), <<"notify.py">>>> :
            x \in { Obj("notification_type" :> Str("idle_prompt")),
                    Obj("notification_type" :> None),
                    Num(5) }}

(***************************************************************************)
(* Notification channels.                                                  *)
(***************************************************************************)
PLATFORM_LABELS(p) ==
    CASE p = "claude_code" -> "Claude Code"
      [] p = "copilot_cli" -> "GitHub Copilot CLI"
      [] p = "cursor" -> "Cursor"
      [] p = "codex" -> "Codex"
      [] p = "aider" -> "Aider"
      [] p = "unknown" -> "AI Agent"
      [] OTHER -> p

\* the long dash of the source is written "--"
_format_title(ev) == "Agent Notifier -- " \o PLATFORM_LABELS(ev.platform)

_format_body(ev) == IF Truthy(ev.message) THEN ev.message ELSE ev.event

Systems == {"Darwin", "Linux", "Windows"}

Field(cfg, k) == Get(cfg, k, Str(""))

\* mutant: one filled field is enough for a sender to go on
SenderActsOnAnyField(name, cfg, sys) ==
    CASE name = "sound" -> sys \in {"Darwin", "Linux"}
      [] name = "macos_notification" -> sys = "Darwin"
      [] name = "telegram" -> Truthy(Field(cfg, "bot_token")) \/ Truthy(Field(cfg, "chat_id"))
      [] name = "email" ->
            \/ Truthy(Field(cfg, "smtp_host")) \/ Truthy(Field(cfg, "username"))
            \/ Truthy(Field(cfg, "password")) \/ Truthy(Field(cfg, "to_addr"))
      [] name = "slack" -> Truthy(Field(cfg, "webhook_url"))
      [] name = "discord" -> Truthy(Field(cfg, "webhook_url"))
\* the sender goes past its early return and starts its external operation
SenderActs(name, cfg, sys) ==
    CASE name = "sound" -> sys \in {"Darwin", "Linux"}
      [] name = "macos_notification" -> sys = "Darwin"
      [] name = "telegram" -> Truthy(Field(cfg, "bot_token")) /\ Truthy(Field(cfg, "chat_id"))
      [] name = "email" ->
            /\ Truthy(Field(cfg, "smtp_host")) /\ Truthy(Field(cfg, "username"))
            /\ Truthy(Field(cfg, "password")) /\ Truthy(Field(cfg, "to_addr"))
      [] name = "slack" -> Truthy(Field(cfg, "webhook_url"))
      [] name = "discord" -> Truthy(Field(cfg, "webhook_url"))

\* building the text raises before anything is sent: body.replace(...) and
\* MIMEText(body) need a str body
SenderFormatFails(name, ev) ==
    name \in {"macos_notification", "email"} /\ ~IsStr(_format_body(ev))

FormatErrorText(name) ==
    IF name = "email" THEN "'NoneType' object has no attribute 'encode'"
    ELSE "'NoneType' object has no attribute 'replace'"

IoErrorText(name) ==
    CASE name \in {"telegram", "slack", "discord"} -> "<urlopen error timed out>"
      [] name = "email" -> "timed out"
      [] OTHER -> "[Errno 2] No such file or directory"

\* print(f"[agent-notifier] {name} failed: {exc}", file=sys.stderr)
DiagLine(name, desc) ==
    [channel |-> name, text |-> "[agent-notifier] " \o name \o " failed: " \o desc]

(***************************************************************************)
(* Project context: the repository name of a directory and the directory   *)
(* preference, as the tests of _get_git_repo_name and                      *)
(* _detect_project_context and the specification give them.                *)
(***************************************************************************)
\* what `git rev-parse --show-toplevel` does in a directory: it exits with a
\* status and the top-level path as output, cannot be started, or times out
Exited(code, top) == [kind |-> "exit", returncode |-> code, top |-> top]
NotARepo == Exited(128, "")
GitMissing == [kind |-> "FileNotFoundError", returncode |-> 0, top |-> ""]
GitTimeout == [kind |-> "TimeoutExpired", returncode |-> 0, top |-> ""]
ProbeOutcomes ==
    {Exited(0, "/Users/dev/my-project"), Exited(0, "/repos/other-repo"), Exited(0, ""),
     NotARepo, GitMissing, GitTimeout}

_get_git_repo_name(directory) ==
    LET r == probe[directory]
    IN  IF r.kind = "exit" /\ r.returncode = 0 THEN Basename(r.top) ELSE ""

\* mutant: the process directory is preferred to the payload's hint
_detect_project_contextProcessFirst(data, platform) ==
    LET name == _get_git_repo_name(procdir)
    IN  IF name # "" THEN name ELSE Basename(procdir)
_detect_project_context(data, platform) ==
    LET hint == IF IsDict(data) THEN Get(data, "cwd", None) ELSE None
        cwd == IF IsStr(hint) /\ hint.v # "" THEN hint.v ELSE procdir
        name == _get_git_repo_name(cwd)
    IN  IF name # "" THEN name ELSE Basename(cwd)

HomeDir == "/home/dev/workspace"
ProcDirs == {HomeDir, "/srv/proj"}
HintDir == "/Users/dev/my-app"
ProjectDirs == ProcDirs \cup {HintDir}
ProjectPayloads ==
    { Obj("cwd" :> Str(HintDir)),
      Obj(("cwd" :> Str(HintDir)) @@ ("notification_type" :> Str("idle_prompt"))),
      Obj("cwd" :> Str("")),
      Obj("notification_type" :> Str("idle_prompt")),
      EmptyDict,
      Str("not a dict"),
      List(<<>>) }

\* nothing resolved and nothing formatted yet
ProjectUnset ==
    /\ hints = None /\ procdir = HomeDir
    /\ probe = [d \in {HomeDir} |-> NotARepo]
    /\ project = ""
Unformatted == title = "" /\ body = None

(***************************************************************************)
(* auto_blog_cover.py, step 5 of main(): the frontmatter fields of the     *)
(* file are rewritten by regular-expression substitution.                  *)
(*                                                                         *)
(* A text is a sequence of tokens: the key of a "key:" pair with its       *)
(* colon, one space, one newline, or a run of characters without           *)
(* whitespace.                                                             *)
(***************************************************************************)
KeyTok(k) == [t |-> "key", v |-> k]
SpTok == [t |-> "sp", v |-> " "]
NlTok == [t |-> "nl", v |-> ""]
TxtTok(x) == [t |-> "txt", v |-> x]

\* ^ under re.MULTILINE: the start of the text or just after a newline
AtLineStart(text, i) == i = 1 \/ text[i - 1].t = "nl"
\* the last position of the line that position i is on
EndOfLine(text, i) ==
    CHOOSE j \in i..Len(text) :
        /\ \A k \in i..j : text[k].t # "nl"
        /\ j = Len(text) \/ text[j + 1].t = "nl"
\* \s* after the key at position i: the last position of the longest run of
\* whitespace, newlines included
WhitespaceEnd(text, i) ==
    CHOOSE j \in i..Len(text) :
        /\ \A k \in (i + 1)..j : text[k].t \in {"sp", "nl"}
        /\ j = Len(text) \/ text[j + 1].t \notin {"sp", "nl"}
\* the ends of group 1 after which (.+)$ can match: something other than a
\* newline follows
GroupEnds(text, i) ==
    {e \in i..WhitespaceEnd(text, i) : e < Len(text) /\ text[e + 1].t # "nl"}
\* ^(field:\s*)(.+)$ matches at position i
Matches(text, i, field) ==
    /\ text[i] = KeyTok(field)
    /\ AtLineStart(text, i)
    /\ GroupEnds(text, i) # {}
\* \s* is greedy: the longest group 1 that lets the rest match
GroupEnd(text, i) == CHOOSE e \in GroupEnds(text, i) : \A d \in GroupEnds(text, i) : d <= e

\* re.sub(pattern, replacement, content, flags=re.MULTILINE) for one field,
\* from position i on
RECURSIVE Sub(_, _, _, _)
Sub(text, i, field, u) ==
    IF i > Len(text) THEN <<>>
    ELSE IF Matches(text, i, field)
    THEN LET e == GroupEnd(text, i)
         IN  SubSeq(text, i, e) \o <<TxtTok(u)>>
             \o Sub(text, EndOfLine(text, e + 1) + 1, field, u)
    ELSE <<text[i]>> \o Sub(text, i + 1, field, u)

\* for field in fields_to_update: content = re.sub(...)
RECURSIVE ReplaceFields(_, _, _)
ReplaceFields(text, fields, u) ==
    IF Len(fields) = 0 THEN text
    ELSE ReplaceFields(Sub(text, 1, Head(fields), u), Tail(fields), u)

\* the lines a markdown file is made of
FileLines ==
    { <<TxtTok("---")>>,
      <<KeyTok("title"), SpTok, TxtTok("My"), SpTok, TxtTok("Post")>>,
      <<KeyTok("banner_img"), SpTok, TxtTok("old_url")>>,
      <<KeyTok("banner_img"), SpTok, SpTok, TxtTok("old_url")>>,
      <<KeyTok("banner_img")>>,
      <<KeyTok("banner_img"), SpTok>>,
      <<KeyTok("index_img"), SpTok, TxtTok("old2")>>,
      <<SpTok, KeyTok("banner_img"), SpTok, TxtTok("nested")>>,
      <<>> }
RECURSIVE FilesOf(_)
FilesOf(n) ==
    IF n = 0 THEN {<<>>}
    ELSE {l \o <<NlTok>> \o f : l \in FileLines, f \in FilesOf(n - 1)}
MarkdownFiles == UNION {FilesOf(n) : n \in 1..MaxLines}
FieldLists == {<<"banner_img", "index_img">>, <<"banner_img">>, <<"index_img">>}
CoverUrl == "https://new.img/cover.png"

\* no markdown file is being updated
CoverUnset ==
    /\ filetext = <<>> /\ fields_to_update = <<>> /\ url = "" /\ content = <<>>

(***************************************************************************)
(* main(): the state after construction.                                   *)
(***************************************************************************)
\* a pool never has more threads than there are channel names
WorkerIds == 1..Len(ChannelOrder)
WakeUp == [name |-> "None", cfg |-> None]

Fresh ==
    /\ pc = "start" /\ ret = <<>> /\ exc = ""
    /\ event_info = NoEvent /\ config = None /\ enabled = <<>>
    /\ nsub = 0 /\ queue = <<>> /\ idle = 0 /\ shut = FALSE
    /\ workers = [w \in WorkerIds |-> "unborn"]
    /\ job = [w \in WorkerIds |-> WakeUp]
    /\ status = [c \in ChannelNames |-> "none"]
    /\ calls = [c \in ChannelNames |-> 0]
    /\ gotev = [c \in ChannelNames |-> NoEvent]
    /\ gotcfg = [c \in ChannelNames |-> None]
    /\ io = {} /\ stderr = <<>> /\ stdout = <<>>

Init ==
    /\ \E i \in MainInputs : stdin = i[1] /\ argv = i[2]
    /\ fs \in FileSystems
    /\ system \in Systems
    /\ Fresh
    /\ ProjectUnset
    /\ Unformatted
    /\ CoverUnset

projvars == <<hints, procdir, probe, project>>
fmtvars == <<title, body>>
covervars == <<filetext, fields_to_update, url, content>>
inputs == <<stdin, argv, fs, system, projvars, fmtvars, covervars>>
poolvars == <<nsub, queue, idle, shut, workers, job>>
chanvars == <<status, calls, gotev, gotcfg, io, stderr, stdout>>

(***************************************************************************)
(* main(): one action per step.                                            *)
(***************************************************************************)
\* event_info = parse_input()
MainParse ==
    /\ pc = "start"
    /\ LET r == parse_input(stdin, argv)
       IN  IF r.ok
           THEN pc' = "load" /\ event_info' = r.ev /\ exc' = exc
           ELSE pc' = "raised" /\ event_info' = event_info /\ exc' = r.exc
    /\ UNCHANGED <<inputs, ret, config, enabled, poolvars, chanvars>>

\* config = load_config()
MainLoadConfig ==
    /\ pc = "load"
    /\ LET r == load_config(fs)
       IN  IF r.ok
           THEN pc' = "select" /\ config' = r.val /\ exc' = exc
           ELSE pc' = "raised" /\ config' = config /\ exc' = r.exc
    /\ UNCHANGED <<inputs, ret, event_info, enabled, poolvars, chanvars>>

\* an exit status that reports a failed channel
ExitStatusReportsFailure == IF \E c \in ChannelNames : status[c] = "failed" THEN 1 ELSE 0

\* return 0
ExitStatus == 0

\* an item that carries the whole table instead of the channel's own entry
ItemWithWholeTable(channels, name) == [name |-> name, cfg |-> channels]

\* (name, cfg) for name, cfg in channels.items(): the pair of one channel
Item(channels, name) == [name |-> name, cfg |-> channels.v[name]]

\* channels = config.get("channels", {}); enabled = [...];
\* if not enabled: return 0
MainSelect ==
    /\ pc = "select"
    /\ LET r == SelectEnabled(config)
       IN  IF ~r.ok
           THEN pc' = "raised" /\ exc' = r.exc /\ enabled' = enabled /\ ret' = ret
           ELSE /\ enabled' = [i \in 1..Len(r.list) |-> Item(ChannelsOf(config), r.list[i])]
                /\ exc' = exc
                /\ IF Len(r.list) = 0
                   THEN pc' = "returned" /\ ret' = <<ExitStatus>>
                   ELSE pc' = "submit" /\ ret' = ret
    /\ UNCHANGED <<inputs, event_info, config, poolvars, chanvars>>

Spawned == {w \in WorkerIds : workers[w] # "unborn"}

\* a pool of one thread
max_workersSingle == IF Len(enabled) > 0 THEN 1 ELSE 0

\* ThreadPoolExecutor(max_workers=len(enabled))
max_workers == Len(enabled)

\* pool.map(_dispatch, enabled) submits the items in order; each submit puts
\* the item on the work queue and starts a thread unless one is idle or
\* max_workers threads exist
MainSubmit ==
    /\ pc = "submit"
    /\ nsub < Len(enabled)
    /\ LET item == enabled[nsub + 1]
       IN  /\ queue' = Append(queue, item)
           /\ status' = [status EXCEPT ![item.name] = "pending"]
    /\ IF idle > 0
       THEN idle' = idle - 1 /\ workers' = workers
       ELSE /\ idle' = idle
            /\ IF Cardinality(Spawned) < max_workers
               THEN LET w == CHOOSE x \in WorkerIds \ Spawned :
                                \A y \in WorkerIds \ Spawned : x <= y
                    IN  workers' = [workers EXCEPT ![w] = "waiting"]
               ELSE workers' = workers
    /\ nsub' = nsub + 1
    /\ pc' = IF nsub + 1 = Len(enabled) THEN "exit" ELSE "submit"
    /\ UNCHANGED <<inputs, ret, exc, event_info, config, enabled, shut, job,
                   calls, gotev, gotcfg, io, stderr, stdout>>

\* leaving the with block: shutdown(wait=True) sets the flag and wakes the
\* workers
MainShutdown ==
    /\ pc = "exit"
    /\ shut' = TRUE
    /\ queue' = Append(queue, WakeUp)
    /\ pc' = "join"
    /\ UNCHANGED <<inputs, ret, exc, event_info, config, enabled, nsub, idle,
                   workers, job, chanvars>>

\* a shutdown that does not wait
JoinedNoWait == TRUE

\* shutdown(wait=True) joins every thread of the pool
Joined == \A w \in WorkerIds : workers[w] \in {"unborn", "exited"}

\* the with block is left and main() returns 0
MainJoin ==
    /\ pc = "join"
    /\ Joined
    /\ pc' = "returned"
    /\ ret' = <<ExitStatus>>
    /\ UNCHANGED <<inputs, exc, event_info, config, enabled, poolvars, chanvars>>

(***************************************************************************)
(* The pool's worker threads, each running _dispatch on the items it       *)
(* takes from the work queue.                                              *)
(***************************************************************************)
\* a worker takes the next item; for a (name, cfg) pair it enters _dispatch
\* and calls CHANNEL_SENDERS[name](cfg, event_info); on the wake-up item of
\* a shut-down pool it puts the item back and ends
WorkerGet(w) ==
    /\ workers[w] = "waiting"
    /\ Len(queue) > 0
    /\ LET item == Head(queue)
       IN  IF item = WakeUp
           THEN /\ shut
                /\ queue' = Append(Tail(queue), WakeUp)
                /\ workers' = [workers EXCEPT ![w] = "exited"]
                /\ UNCHANGED <<job, status, calls, gotev, gotcfg>>
           ELSE /\ queue' = Tail(queue)
                /\ workers' = [workers EXCEPT ![w] = "running"]
                /\ job' = [job EXCEPT ![w] = item]
                /\ status' = [status EXCEPT ![item.name] = "running"]
                /\ IF item.name \in CHANNEL_SENDERS
                   THEN /\ calls' = [calls EXCEPT ![item.name] = @ + 1]
                        /\ gotev' = [gotev EXCEPT ![item.name] = event_info]
                        /\ gotcfg' = [gotcfg EXCEPT ![item.name] = item.cfg]
                   ELSE UNCHANGED <<calls, gotev, gotcfg>>
    /\ UNCHANGED <<inputs, pc, ret, exc, event_info, config, enabled, nsub, idle,
                   shut, io, stderr, stdout>>

\* a handler that cancels the items still queued
DispatchExceptCancels(name, desc) ==
    /\ stderr' = Append(stderr, DiagLine(name, desc))
    /\ status' = [status EXCEPT ![name] = "failed"]
    /\ queue' = SelectSeq(queue, LAMBDA it : it = WakeUp)

\* a handler that queues the failed item again
DispatchExceptRetries(name, desc) ==
    /\ stderr' = Append(stderr, DiagLine(name, desc))
    /\ status' = [status EXCEPT ![name] = "pending"]
    /\ queue' = <<[name |-> name, cfg |-> gotcfg[name]]>> \o queue

\* a handler that swallows the exception without a line
DispatchExceptSilent(name, desc) ==
    /\ stderr' = stderr
    /\ status' = [status EXCEPT ![name] = "failed"]
    /\ queue' = queue

\* except Exception as exc: print(..., file=sys.stderr)
DispatchExcept(name, desc) ==
    /\ stderr' = Append(stderr, DiagLine(name, desc))
    /\ status' = [status EXCEPT ![name] = "failed"]
    /\ queue' = queue

\* the sender returned: _dispatch returns
DispatchReturn(name) ==
    /\ stderr' = stderr
    /\ status' = [status EXCEPT ![name] = "done"]
    /\ queue' = queue

\* a network call without a timeout towards a peer that never answers
DeliveryEndsUnlessNetwork(name) == name \notin {"telegram", "email", "slack", "discord"}

\* urlopen(req, timeout=10) and smtplib.SMTP(host, port, timeout=10): the
\* external operation of a sender ends, by returning or by raising, at the
\* latest when its timeout expires; Popen of the local senders does not wait
DeliveryEnds(name) == TRUE

\* the sender called by worker w ends, by returning or by raising, and the
\* worker goes back to the queue
WorkerFinish(w) ==
    /\ workers[w] = "running"
    /\ LET name == job[w].name
           cfg == job[w].cfg
       IN  IF name \notin CHANNEL_SENDERS
           THEN io' = io /\ DispatchExcept(name, "'" \o name \o "'")
           ELSE IF ~SenderActs(name, cfg, system)
           THEN io' = io /\ DispatchReturn(name)
           ELSE IF SenderFormatFails(name, event_info)
           THEN io' = io /\ DispatchExcept(name, FormatErrorText(name))
           ELSE /\ DeliveryEnds(name)
                /\ io' = io \cup {name}
                /\ \/ DispatchReturn(name)
                   \/ DispatchExcept(name, IoErrorText(name))
    /\ workers' = [workers EXCEPT ![w] = "waiting"]
    /\ job' = [job EXCEPT ![w] = WakeUp]
    /\ idle' = idle + 1
    /\ UNCHANGED <<inputs, pc, ret, exc, event_info, config, enabled, nsub, shut,
                   calls, gotev, gotcfg, stdout>>

Next ==
    \/ MainParse
    \/ MainLoadConfig
    \/ MainSelect
    \/ MainSubmit
    \/ MainShutdown
    \/ MainJoin
    \/ \E w \in WorkerIds : WorkerGet(w)
    \/ \E w \in WorkerIds : WorkerFinish(w)

Spec == Init /\ [][Next]_vars

\* the runs checked for termination: every set of at most MaxEnabled known
\* channels, each enabled with its fields filled in, on the system on which
\* every sender goes on to its external operation, for an event the senders
\* can format and for one they cannot
EnabledTables ==
    {[n \in S |-> Enabled(n)] : S \in {T \in SUBSET CHANNEL_SENDERS : Cardinality(T) <= MaxEnabled}}
InitFair ==
    /\ stdin \in {Pipe(<<Doc(Obj("notification_type" :> x))>>) : x \in {Str("idle_prompt"), None}}
    /\ argv = <<"notify.py">>
    /\ fs \in {[user |-> File(WithChannels(Obj(t))), bundled |-> Absent] : t \in EnabledTables}
               \cup {[user |-> Absent, bundled |-> Absent]}
    /\ system = "Darwin"
    /\ Fresh
    /\ ProjectUnset
    /\ Unformatted
    /\ CoverUnset

\* main() and the pool's threads under a scheduler that does not stop while
\* a step is possible
SpecFair == InitFair /\ [][Next]_vars /\ WF_vars(Next)

(***************************************************************************)
(* parse_input() alone, on every input text and argument list.             *)
(***************************************************************************)
InitParse ==
    /\ \/ stdin \in SmallStdins /\ argv \in Argvs
       \/ stdin \in BulkStdins /\ argv = <<"notify.py">>
    /\ fs = [user |-> Absent, bundled |-> Absent]
    /\ system = "Linux"
    /\ Fresh
    /\ ProjectUnset
    /\ Unformatted
    /\ CoverUnset

NextParse == MainParse

SpecParse == InitParse /\ [][NextParse]_vars

(***************************************************************************)
(* Properties of parse_input(), checked under SpecParse.                   *)
(***************************************************************************)
Parsed == pc = "load"
ParseRaised == pc = "raised"

\* the parsed document when the input is one JSON object
IsObjectInput ==
    LET raw == Strip(_read_stdin(stdin))
    IN  JsonLoadsOk(raw) /\ IsDict(JsonLoads(raw))
Payload == JsonLoads(Strip(_read_stdin(stdin)))

\* C1: normalization is total: for every input text (empty, whitespace,
\* invalid JSON, a JSON object, or valid JSON that is not an object) and
\* every argument list, parse_input returns an event with platform, event
\* and message set, and never raises.
C1_NormalizationTotal ==
    /\ ~ParseRaised
    /\ Parsed => event_info.platform # ""

Platforms ==
    {"claude_code", "copilot_cli", "cursor", "codex", "opencode", "aider", "unknown"}

\* C2: in every event parse_input returns, platform is one of the closed
\* set and the event kind is a non-empty string, "notification" when the
\* payload supplies no kind, whatever the payload's fields hold.
C2_EventWellFormed ==
    Parsed =>
        /\ event_info.platform \in Platforms
        /\ IsStr(event_info.event)
        /\ event_info.event.v # ""
        /\ ~IsObjectInput => event_info.event.v = "notification"

\* The detectors in the documented priority order.  Detector 6 is the
\* documented one for the platform tag "opencode" with an idle-session
\* event_type; the other detectors produce what the code's detector of the
\* same rank produces.
IdleSessionTypes == {"session.idle"}
OpenCodeText == "(check) Session completed -- waiting for your input"
IsOpenCode(data) ==
    /\ IsStrEq(Get(data, "platform", None), "opencode")
    /\ Get(data, "event_type", None).t = "str"
    /\ Get(data, "event_type", None).v \in IdleSessionTypes
OpenCode(data) == Return(Event("opencode", data.v["event_type"], Str(OpenCodeText)))

FirstDetector(data) ==
    IF HasKey(data, "notification_type") THEN ClaudeCode(data)
    ELSE IF HasKey(data, "reason") /\ ~HasKey(data, "toolName") THEN CopilotSessionEnd(data)
    ELSE IF HasKey(data, "toolName") /\ HasKey(data, "toolResult") THEN CopilotPostToolUse(data)
    ELSE IF HasKey(data, "source") /\ ~HasKey(data, "toolName")
            /\ ~HasKey(data, "notification_type") THEN CopilotSessionStart(data)
    ELSE IF Truthy(Get(data, "hook_event_name", Str(""))) THEN HookEvent(data)
    ELSE IF IsOpenCode(data) THEN OpenCode(data)
    ELSE IF IsCodex(data) THEN Codex(data)
    ELSE Fallback(data)

\* C3: for every JSON-object payload the event parse_input returns is the
\* event of the first detector, in the documented order of eight, whose
\* predicate the payload satisfies.
C3_FirstDetectorWins ==
    (Parsed /\ IsObjectInput) => event_info = FirstDetector(Payload).ev

(***************************************************************************)
(* Properties of main() and its dispatcher, checked under Spec.            *)
(***************************************************************************)
Returned == pc = "returned"
EnabledNames == {enabled[i].name : i \in 1..Len(enabled)}
Failed == {c \in ChannelNames : status[c] = "failed"}
Finished == {c \in ChannelNames : status[c] \in {"done", "failed"}}
Invoked == {c \in ChannelNames : calls[c] > 0}

\* C4: dispatch isolation: when exactly one of the N enabled channels'
\* delivery functions raises, each of the other N-1 is still invoked and
\* runs to completion, under every interleaving, and main does not raise
\* (and is never stuck before it has returned).
C4_DispatchIsolation ==
    /\ Len(enabled) > 0 => pc # "raised"
    /\ (Len(enabled) > 0 /\ ~Returned) => ENABLED Next
    /\ (Returned /\ Cardinality(Failed) = 1) =>
          \A c \in EnabledNames \ Failed : calls[c] = 1 /\ status[c] = "done"

C4_Witness ==
    /\ Returned
    /\ Cardinality(Failed) = 1
    /\ Cardinality(EnabledNames) >= 3
    /\ \A c \in EnabledNames \ Failed : status[c] = "done" /\ c \in io

\* C5: for every subset of the enabled channels whose delivery fails (none,
\* some, all), main returns 0: the exit status does not depend on the
\* channels' outcomes.
C5_ExitStatusZero ==
    (Len(enabled) > 0 /\ pc \in {"returned", "raised"}) => (Returned /\ ret = <<0>>)

C5_Witness ==
    /\ Returned
    /\ ret = <<0>>
    /\ Cardinality(EnabledNames) >= 2
    /\ Failed = EnabledNames

\* C6: nothing is fatal: for every state of the configuration source (no
\* file, a well-formed file, a file that is not valid JSON, a file whose
\* "channels" value or a channel entry is not an object) main finishes with
\* return value 0 and no uncaught exception.  Stated for the payloads
\* parse_input returns an event for.
C6_NothingFatal ==
    event_info # NoEvent => (pc # "raised" /\ (Returned => ret = <<0>>))

\* C7: main returns only after every enabled channel's delivery attempt
\* has finished: never has main returned while a delivery is pending or
\* running.
C7_ReturnsAfterAllFinished ==
    Returned =>
        /\ \A c \in ChannelNames : status[c] \notin {"pending", "running"}
        /\ \A w \in WorkerIds : workers[w] # "running"
        /\ EnabledNames \subseteq Finished

C7_Witness ==
    /\ Returned
    /\ Cardinality(EnabledNames) >= 3
    /\ Finished = EnabledNames
    /\ Cardinality(Spawned) >= 2

\* the configuration is a table of entries that are all objects
WellFormedConfig ==
    /\ IsDict(config)
    /\ IsDict(ChannelsOf(config))
    /\ \A n \in DOMAIN ChannelsOf(config).v : IsDict(ChannelsOf(config).v[n])
Marked(n) == Truthy(Get(ChannelsOf(config).v[n], "enabled", None))
KnownNames == {"sound", "macos_notification", "telegram", "email", "slack", "discord"}
\* the configured channels that are marked enabled and are known
Expected == {n \in DOMAIN ChannelsOf(config).v : Marked(n) /\ n \in KnownNames}
Selecting == pc \in {"start", "load", "select"}

\* C8: when no configured channel is both enabled and known, main returns 0
\* at once: no delivery function is invoked, no worker is started and
\* nothing is written to the diagnostic stream.
C8_NothingEnabled ==
    (~Selecting /\ WellFormedConfig /\ Expected = {}) =>
        /\ Returned /\ ret = <<0>>
        /\ Invoked = {} /\ io = {}
        /\ Spawned = {} /\ nsub = 0 /\ queue = <<>>
        /\ stderr = <<>> /\ stdout = <<>>

C8_Witness ==
    /\ Returned
    /\ WellFormedConfig
    /\ Expected = {}
    /\ \E n \in DOMAIN ChannelsOf(config).v : Marked(n)
    /\ \E n \in DOMAIN ChannelsOf(config).v : ~Marked(n) /\ n \in KnownNames

\* C9: in one invocation each enabled channel's delivery function is
\* invoked exactly once, whether it succeeds or fails: no retry of a failed
\* delivery and no second delivery to a channel.
C9_ExactlyOnce ==
    /\ \A c \in ChannelNames : calls[c] <= 1
    /\ \A c \in Finished : calls[c] = 1
    /\ Returned => \A c \in EnabledNames : calls[c] = 1

C9_Witness ==
    /\ Returned
    /\ Cardinality(EnabledNames) >= 2
    /\ \E c \in Failed : calls[c] = 1 /\ c \in io
    /\ \E c \in EnabledNames \ Failed : calls[c] = 1

\* C10: the channels dispatched are exactly the configured channels marked
\* enabled whose name is in the known channel table: a disabled or unknown
\* channel never has a delivery function invoked and never produces an
\* error or a diagnostic.
C10_DispatchedSet ==
    (~Selecting /\ WellFormedConfig) =>
        /\ pc # "raised"
        /\ EnabledNames = Expected
        /\ Invoked \subseteq Expected
        /\ \A c \in ChannelNames \ Expected : status[c] = "none"
        /\ \A i \in 1..Len(stderr) : stderr[i].channel \in Expected
        /\ Returned => Invoked = Expected

C10_Witness ==
    /\ Returned
    /\ WellFormedConfig
    /\ Invoked = Expected
    /\ Expected # {}
    /\ \E n \in DOMAIN ChannelsOf(config).v : Marked(n) /\ n \notin KnownNames
    /\ \E n \in DOMAIN ChannelsOf(config).v : ~Marked(n) /\ n \in KnownNames

(***************************************************************************)
(* The Copilot CLI and Claude Code detectors, checked under SpecParse.     *)
(***************************************************************************)
HasToolUse == IsObjectInput /\ HasKey(Payload, "toolName") /\ HasKey(Payload, "toolResult")
HasType == IsObjectInput /\ HasKey(Payload, "notification_type")
IsPostToolUse ==
    event_info.platform = "copilot_cli" /\ IsStrEq(event_info.event, "postToolUse")
IsSessionEnd ==
    event_info.platform = "copilot_cli" /\ IsStrEq(event_info.event, "sessionEnd")

\* C11 as stated: for every payload with both toolName and toolResult the
\* event kind is postToolUse and the platform copilot_cli, whichever other
\* keys are present.
C11_ToolUseAlways ==
    (Parsed /\ HasToolUse) => IsPostToolUse

\* C11: for every payload with both toolName and toolResult and without
\* notification_type, every event parse_input returns has kind postToolUse
\* and platform copilot_cli, whether or not reason or source are present.
C11_ToolUseWithoutType ==
    (Parsed /\ HasToolUse /\ ~HasType) => IsPostToolUse

C11_Witness ==
    /\ Parsed /\ HasToolUse /\ ~HasType
    /\ HasKey(Payload, "reason") /\ HasKey(Payload, "source")
    /\ IsPostToolUse

HasReasonOnly == IsObjectInput /\ HasKey(Payload, "reason") /\ ~HasKey(Payload, "toolName")

\* C12 as stated: for every payload with reason present and toolName absent
\* the platform is copilot_cli and the event kind sessionEnd.
C12_ReasonAlways ==
    (Parsed /\ HasReasonOnly) => IsSessionEnd

\* C12: for every payload with reason present, toolName absent and no
\* notification_type, every event parse_input returns has platform
\* copilot_cli and kind sessionEnd, never unknown or another platform.
C12_ReasonWithoutType ==
    (Parsed /\ HasReasonOnly /\ ~HasType) => IsSessionEnd

\* a reason outside the five known codes, next to keys of other detectors
C12_Witness ==
    /\ Parsed /\ HasReasonOnly /\ ~HasType
    /\ IsStrEq(Payload.v["reason"], "weird")
    /\ HasKey(Payload, "hook_event_name")
    /\ IsSessionEnd

\* equality of two Python values, compared by tag first
Same(a, b) == a.t = b.t /\ a.v = b.v
TypeValue == Payload.v["notification_type"]
IsMappedType == IsStrEq(TypeValue, "idle_prompt") \/ IsStrEq(TypeValue, "permission_prompt")
MessageGiven == HasKey(Payload, "message")

\* C13 as stated: for a notification_type other than idle_prompt and
\* permission_prompt the message is the payload's message field when one is
\* given, and the type string when none is given.
C13_MessageOrType ==
    (Parsed /\ HasType /\ ~IsMappedType) =>
        IF MessageGiven
        THEN Same(event_info.message, Payload.v["message"])
        ELSE Same(event_info.message, TypeValue)

\* C13: for a notification_type other than idle_prompt and
\* permission_prompt the message is the payload's message field when a
\* non-empty one is given, and the type value itself when no message is
\* given or the given one is empty.
C13_NonEmptyMessageOrType ==
    (Parsed /\ HasType /\ ~IsMappedType) =>
        IF MessageGiven /\ Truthy(Payload.v["message"])
        THEN Same(event_info.message, Payload.v["message"])
        ELSE Same(event_info.message, TypeValue)

C13_Witness ==
    /\ Parsed /\ HasType
    /\ IsStrEq(TypeValue, "custom_type")
    /\ MessageGiven
    /\ IsStrEq(event_info.message, "Done")

TemplateOf(ntype) ==
    IF IsStrEq(ntype, "idle_prompt") THEN IdlePromptText ELSE PermissionPromptText

\* C14: for notification_type idle_prompt or permission_prompt the platform
\* is claude_code, the event kind is the type value and the message is the
\* fixed text of that type, whatever the payload's message field holds.
C14_TemplateOverrides ==
    (Parsed /\ HasType /\ IsMappedType) =>
        /\ event_info.platform = "claude_code"
        /\ Same(event_info.event, TypeValue)
        /\ IsStrEq(event_info.message, TemplateOf(TypeValue))

\* a provided message that the template replaces
C14_Witness ==
    /\ Parsed /\ HasType
    /\ IsStrEq(TypeValue, "permission_prompt")
    /\ MessageGiven /\ IsStrEq(Payload.v["message"], "Done")
    /\ IsStrEq(event_info.message, PermissionPromptText)

(***************************************************************************)
(* The argument path and the plain-text path, checked under SpecParse.     *)
(***************************************************************************)
ParseDone == pc # "start"
\* what the process reads from standard input
InputText == _read_stdin(stdin)
HasArgs == Len(argv) > 1
OnlyWhitespace(text) == \A i \in 1..Len(text) : text[i].t = "ws"
\* the text between its first and its last non-whitespace character
Trimmed(text) ==
    IF OnlyWhitespace(text) THEN <<>>
    ELSE LET ink == {i \in 1..Len(text) : text[i].t # "ws"}
             first == CHOOSE i \in ink : \A j \in ink : i <= j
             last == CHOOSE i \in ink : \A j \in ink : j <= i
         IN  SubSeq(text, first, last)
RECURSIVE SpaceJoined(_)
SpaceJoined(words) ==
    IF Len(words) = 1 THEN words[1]
    ELSE words[1] \o " " \o SpaceJoined(Tail(words))
IsAiderEvent ==
    /\ Parsed
    /\ event_info.platform = "aider"
    /\ IsStrEq(event_info.event, "notification")
    /\ IsStrEq(event_info.message, SpaceJoined(Tail(argv)))
\* the outcome is the one of the same input without arguments
ArgsNotUsed ==
    LET r == parse_input(stdin, <<argv[1]>>)
    IN  /\ r.ok => Parsed /\ event_info = r.ev
        /\ ~r.ok => ParseRaised /\ exc = r.exc
        /\ Parsed => event_info.platform # "aider"

\* C15 as stated: with no input on stdin and at least one argument the event
\* is aider / notification / the arguments joined by single spaces in order;
\* with a non-empty stdin the arguments are not used.
C15_ArgsOnlyWhenEmpty ==
    ParseDone =>
        /\ (Len(InputText) = 0 /\ HasArgs) => IsAiderEvent
        /\ Len(InputText) > 0 => ArgsNotUsed

\* C15: with a stdin that yields no input or only whitespace and at least
\* one argument the event is aider / notification / the arguments joined by
\* single spaces in order; with a stdin that holds anything but whitespace
\* the arguments are not used.
C15_ArgsOnlyWhenBlank ==
    ParseDone =>
        /\ (OnlyWhitespace(InputText) /\ HasArgs) => IsAiderEvent
        /\ ~OnlyWhitespace(InputText) => ArgsNotUsed

C15_Witness ==
    /\ IsAiderEvent
    /\ Len(InputText) = 0
    /\ Len(argv) = 3
    /\ IsStrEq(event_info.message, "Build finished")

IsTextEvent(text) ==
    /\ Parsed
    /\ event_info.platform = "unknown"
    /\ IsStrEq(event_info.event, "notification")
    /\ IsStrEq(event_info.message, text)

\* C16 as stated: a non-empty stdin that is not parseable as JSON gives
\* unknown / notification / the raw input text, character for character.
C16_TextVerbatim ==
    (ParseDone /\ Len(InputText) > 0 /\ ~JsonLoadsOk(Trimmed(InputText))) =>
        IsTextEvent(TextOf(InputText))

\* C16: a stdin that holds a non-whitespace character and is not parseable
\* as JSON gives unknown / notification / the input text without its
\* leading and trailing whitespace, and otherwise unchanged.
C16_TextTrimmed ==
    (ParseDone /\ ~OnlyWhitespace(InputText) /\ ~JsonLoadsOk(Trimmed(InputText))) =>
        IsTextEvent(TextOf(Trimmed(InputText)))

\* padded text with inner whitespace, next to arguments
C16_Witness ==
    /\ IsTextEvent("plain text")
    /\ Len(InputText) = 5
    /\ HasArgs

\* C17: every event parse_input returns carries a project field, on every
\* return path: the argument path, the empty-input path, the plain-text
\* path, each platform detector and the unknown fallback.
C17_ProjectOnEveryPath ==
    Parsed => "project" \in DOMAIN event_info

(***************************************************************************)
(* The project resolution alone, on every payload, process directory and   *)
(* probe outcome.                                                          *)
(***************************************************************************)
InitProject ==
    /\ hints \in ProjectPayloads
    /\ procdir \in ProcDirs
    /\ probe \in [ProjectDirs -> ProbeOutcomes]
    /\ project = ""
    /\ stdin = Pipe(<<>>) /\ argv = <<"notify.py">>
    /\ fs = [user |-> Absent, bundled |-> Absent]
    /\ system = "Linux"
    /\ Fresh
    /\ Unformatted
    /\ CoverUnset

\* project = _detect_project_context(data, platform)
DetectProject ==
    /\ pc = "start"
    /\ project' = _detect_project_context(hints, event_info.platform)
    /\ pc' = "detected"
    /\ UNCHANGED <<stdin, argv, fs, system, hints, procdir, probe, fmtvars, covervars,
                   ret, exc, event_info, config, enabled, poolvars, chanvars>>

NextProject == DetectProject

SpecProject == InitProject /\ [][NextProject]_vars

Detected == pc = "detected"
HintGiven == IsDict(hints) /\ HasKey(hints, "cwd") /\ IsStrEq(hints.v["cwd"], HintDir)
SelectedDir == IF HintGiven THEN HintDir ELSE procdir
ProbeSucceeded(d) == probe[d].kind = "exit" /\ probe[d].returncode = 0
RepoName(d) == Basename(probe[d].top)

\* C18: the directory is the payload's cwd hint when the payload is an
\* object that has one, otherwise the process working directory; the
\* project is the repository name the probe returns for that directory when
\* it is non-empty, and otherwise (non-zero status, tool missing, timeout)
\* the base name of that directory. Resolution never raises, also for a
\* payload that is not an object.
C18_ResolutionPreference ==
    /\ pc # "raised"
    /\ pc = "start" => ENABLED DetectProject
    /\ Detected =>
        /\ (ProbeSucceeded(SelectedDir) /\ RepoName(SelectedDir) # "")
               => project = RepoName(SelectedDir)
        /\ (~ProbeSucceeded(SelectedDir) \/ RepoName(SelectedDir) = "")
               => project = Basename(SelectedDir)

\* the hint's directory is a repository, the process directory another one
C18_Witness ==
    /\ Detected /\ HintGiven
    /\ procdir # HintDir
    /\ ProbeSucceeded(HintDir) /\ ProbeSucceeded(procdir)
    /\ RepoName(HintDir) # RepoName(procdir)
    /\ project = RepoName(HintDir) /\ project = "my-project"

(***************************************************************************)
(* The title and the body a sender formats, on every event.                *)
(***************************************************************************)
WithProject(ev, name) ==
    [platform |-> ev.platform, event |-> ev.event, message |-> ev.message,
     project |-> name]
FormatEvents ==
    LET plain == {Event(p, e, m) :
                    p \in Platforms \cup {"my_tool"},
                    e \in {Str("idle_prompt"), Str("notification")},
                    m \in {Str("Task completed"), Str("")}}
    IN  plain \cup {WithProject(ev, n) : ev \in plain, n \in {Str("my-app"), Str("")}}

InitFormat ==
    /\ pc = "start" /\ ret = <<>> /\ exc = ""
    /\ event_info \in FormatEvents
    /\ config = None /\ enabled = <<>>
    /\ nsub = 0 /\ queue = <<>> /\ idle = 0 /\ shut = FALSE
    /\ workers = [w \in WorkerIds |-> "unborn"]
    /\ job = [w \in WorkerIds |-> WakeUp]
    /\ status = [c \in ChannelNames |-> "none"]
    /\ calls = [c \in ChannelNames |-> 0]
    /\ gotev = [c \in ChannelNames |-> NoEvent]
    /\ gotcfg = [c \in ChannelNames |-> None]
    /\ io = {} /\ stderr = <<>> /\ stdout = <<>>
    /\ stdin = Pipe(<<>>) /\ argv = <<"notify.py">>
    /\ fs = [user |-> Absent, bundled |-> Absent]
    /\ system = "Darwin"
    /\ ProjectUnset
    /\ Unformatted
    /\ CoverUnset

\* title = _format_title(event_info); body = _format_body(event_info)
Format ==
    /\ pc = "start"
    /\ title' = _format_title(event_info)
    /\ body' = _format_body(event_info)
    /\ pc' = "formatted"
    /\ UNCHANGED <<stdin, argv, fs, system, projvars, covervars, ret, exc, event_info,
                   config, enabled, poolvars, chanvars>>

NextFormat == Format

SpecFormat == InitFormat /\ [][NextFormat]_vars

Formatted == pc = "formatted"
HasProject ==
    /\ "project" \in DOMAIN event_info
    /\ IsStr(event_info.project) /\ event_info.project.v # ""
BodyText == IF event_info.message.v # "" THEN event_info.message.v ELSE event_info.event.v

\* C19: the body is the event's message, or the event kind when the message
\* is empty, prefixed with "[<project>] " exactly when the event has a
\* non-empty project; without a project field or with an empty project the
\* body has no prefix.
C19_BodyWithProjectPrefix ==
    Formatted =>
        IF HasProject
        THEN IsStrEq(body, "[" \o event_info.project.v \o "] " \o BodyText)
        ELSE IsStrEq(body, BodyText)

HumanLabel(p) ==
    CASE p = "claude_code" -> "Claude Code"
      [] p = "copilot_cli" -> "GitHub Copilot CLI"
      [] p = "cursor" -> "Cursor"
      [] p = "codex" -> "Codex"
      [] p = "opencode" -> "OpenCode"
      [] p = "aider" -> "Aider"
      [] OTHER -> "AI Agent"

\* C20: the title is "Agent Notifier -- <label>" with the human label of
\* the platform for every platform of the closed set ("Claude Code",
\* "OpenCode", ...), and the generic label "AI Agent" for unknown and for
\* any platform that is not in the label table.
C20_TitleWithHumanLabel ==
    Formatted => title = "Agent Notifier -- " \o HumanLabel(event_info.platform)

(***************************************************************************)
(* The remaining detectors, checked under SpecParse.                       *)
(***************************************************************************)
NoEarlierKeys ==
    /\ ~HasKey(Payload, "notification_type") /\ ~HasKey(Payload, "reason")
    /\ ~HasKey(Payload, "toolName") /\ ~HasKey(Payload, "source")
    /\ ~HasKey(Payload, "hook_event_name")

\* C21: a payload with platform tag "opencode" and event_type
\* "session.idle", and none of the keys of the earlier detectors, gives
\* platform opencode, event kind session.idle and the fixed completion
\* message, whatever the payload's own message field holds.
C21_OpenCodeSessionIdle ==
    (Parsed /\ IsObjectInput /\ IsOpenCode(Payload) /\ NoEarlierKeys) =>
        /\ event_info.platform = "opencode"
        /\ IsStrEq(event_info.event, "session.idle")
        /\ IsStrEq(event_info.message, OpenCodeText)

(***************************************************************************)
(* The senders and the diagnostics, checked under Spec.                    *)
(***************************************************************************)
NetworkChannels == {"telegram", "email", "slack", "discord"}
Required(c) ==
    CASE c = "telegram" -> {"bot_token", "chat_id"}
      [] c = "email" -> {"smtp_host", "username", "password", "to_addr"}
      [] c \in {"slack", "discord"} -> {"webhook_url"}
      [] OTHER -> {}
\* the entry a sender received lacks a required field or holds it empty
Incomplete(c) ==
    /\ calls[c] > 0
    /\ IsDict(gotcfg[c])
    /\ \E k \in Required(c) : ~HasKey(gotcfg[c], k) \/ IsStrEq(gotcfg[c].v[k], "")
LinesOf(c) == {i \in 1..Len(stderr) : stderr[i].channel = c}

\* C22: a channel whose required fields are missing or empty (telegram
\* without token or chat id; email without host, username, password or
\* to-address; slack or discord without webhook URL) performs no network or
\* SMTP operation, returns normally and counts as a success: no diagnostic
\* line is written for it.
C22_IncompleteIsSilentSuccess ==
    \A c \in NetworkChannels :
        Incomplete(c) =>
            /\ c \notin io
            /\ status[c] \in {"running", "done"}
            /\ LinesOf(c) = {}
            /\ Returned => status[c] = "done"

\* a half-filled telegram, a half-filled email and an empty slack entry
C22_Witness ==
    /\ Returned
    /\ \A c \in {"telegram", "email", "slack"} : Incomplete(c) /\ status[c] = "done"
    /\ HasKey(gotcfg["telegram"], "bot_token")
    /\ HasKey(gotcfg["slack"], "webhook_url")
    /\ io = {} /\ stderr = <<>>

\* the lines of the diagnostic stream that have the form
\* "[agent-notifier] <c> failed: <description>"
FailedPrefix(c) == "[agent-notifier] " \o c \o " failed: "
LinesNaming(c) ==
    {i \in 1..Len(stderr) :
        /\ Len(stderr[i].text) > Len(FailedPrefix(c))
        /\ SubSeq(stderr[i].text, 1, Len(FailedPrefix(c))) = FailedPrefix(c)}

\* C23: after dispatch the diagnostic stream holds exactly one line per
\* channel whose delivery raised, of the form "[agent-notifier] <channel>
\* failed: <description>", and no line for a channel whose delivery
\* returned normally, under every interleaving of the failing channels;
\* nothing is written to standard output.
C23_OneLinePerFailure ==
    /\ stdout = <<>>
    /\ \A i \in 1..Len(stderr) : \E c \in Failed : i \in LinesNaming(c)
    /\ \A c \in ChannelNames :
          Cardinality(LinesNaming(c)) = IF c \in Failed THEN 1 ELSE 0
    /\ Returned => Len(stderr) = Cardinality(Failed)

\* two channels failed, the later one of the list first, a third succeeded
C23_Witness ==
    /\ Returned
    /\ Len(stderr) = 2
    /\ \E i, j \in 1..Len(enabled) :
          /\ i < j
          /\ 2 \in LinesNaming(enabled[i].name)
          /\ 1 \in LinesNaming(enabled[j].name)
    /\ \E c \in EnabledNames : status[c] = "done" /\ c \in io

(***************************************************************************)
(* The configuration loader, checked under Spec.                           *)
(***************************************************************************)
ConfigLoaded == pc \in {"select", "submit", "exit", "join", "returned"}
IsDocument(f) == Len(f.segs) = 1 /\ f.segs[1].t = "json"
DocumentOf(f) == f.segs[1].v
LocalChannels == {"sound", "macos_notification"}
MarkedIn(table) ==
    {n \in DOMAIN table.v : IsDict(table.v[n]) /\ Truthy(Get(table.v[n], "enabled", None))}

\* C24: load_config returns the content of the first path that exists in
\* the fixed order, the user-level path first and the bundled one second,
\* and never consults a later path when an earlier one exists; when neither
\* exists it returns an in-memory default whose only enabled channels are
\* the local ones, sound and macos_notification.
C24_FirstExistingPath ==
    ConfigLoaded =>
        /\ fs.user.exists => IsDocument(fs.user) /\ config = DocumentOf(fs.user)
        /\ (~fs.user.exists /\ fs.bundled.exists) =>
               IsDocument(fs.bundled) /\ config = DocumentOf(fs.bundled)
        /\ (~fs.user.exists /\ ~fs.bundled.exists) =>
               /\ IsDict(config) /\ HasKey(config, "channels")
               /\ MarkedIn(config.v["channels"]) = LocalChannels

\* both paths exist and hold different documents: the user-level one wins
C24_Witness ==
    /\ ConfigLoaded
    /\ fs.user.exists /\ fs.bundled.exists
    /\ IsDocument(fs.bundled)
    /\ DocumentOf(fs.bundled) # DocumentOf(fs.user)
    /\ config = DocumentOf(fs.user)

(***************************************************************************)
(* auto_blog_cover.py: the frontmatter update alone, on every file, field  *)
(* list and URL.                                                           *)
(***************************************************************************)
InitCover ==
    /\ filetext \in MarkdownFiles
    /\ fields_to_update \in FieldLists
    /\ url = CoverUrl
    /\ content = <<>>
    /\ stdin = Pipe(<<>>) /\ argv = <<"notify.py">>
    /\ fs = [user |-> Absent, bundled |-> Absent]
    /\ system = "Linux"
    /\ Fresh
    /\ ProjectUnset
    /\ Unformatted

\* content = f.read(); for field in fields_to_update: content = re.sub(...);
\* f.write(content)
UpdateFrontmatter ==
    /\ pc = "start"
    /\ content' = ReplaceFields(filetext, fields_to_update, url)
    /\ pc' = "updated"
    /\ UNCHANGED <<stdin, argv, fs, system, projvars, fmtvars, filetext, fields_to_update,
                   url, ret, exc, event_info, config, enabled, poolvars, chanvars>>

NextCover == UpdateFrontmatter

SpecCover == InitCover /\ [][NextCover]_vars

Updated == pc = "updated"
\* the lines of a text, as str.split on the newline gives them
RECURSIVE LinesFrom(_, _, _)
LinesFrom(text, i, line) ==
    IF i > Len(text) THEN <<line>>
    ELSE IF text[i].t = "nl" THEN <<line>> \o LinesFrom(text, i + 1, <<>>)
    ELSE LinesFrom(text, i + 1, Append(line, text[i]))
LinesOfText(text) == LinesFrom(text, 1, <<>>)
ListedFields == {fields_to_update[i] : i \in 1..Len(fields_to_update)}
\* a line "key: ..." whose key is one of the listed fields
IsListedLine(line) == Len(line) > 0 /\ line[1].t = "key" /\ line[1].v \in ListedFields

\* C25: replacing a list of frontmatter fields with a URL changes only the
\* value part of the lines whose key is one of the listed fields, keeping
\* the key: every other line is preserved unchanged, and a content with
\* none of the listed fields is returned identical to the input.
C25_OnlyListedValuesChange ==
    Updated =>
        LET before == LinesOfText(filetext)
            after == LinesOfText(content)
        IN  /\ Len(after) = Len(before)
            /\ \A i \in 1..Len(before) :
                  IF IsListedLine(before[i])
                  THEN Len(after[i]) > 0 /\ after[i][1] = before[i][1]
                  ELSE after[i] = before[i]
            /\ (\A i \in 1..Len(before) : ~IsListedLine(before[i])) => content = filetext

(***************************************************************************)
(* Concurrency of the dispatcher, checked under Spec.                      *)
(***************************************************************************)
Waiting == {w \in WorkerIds : workers[w] = "waiting"}
Running == {w \in WorkerIds : workers[w] = "running"}
QueuedItems == {i \in 1..Len(queue) : queue[i] # WakeUp}

\* C26: with N enabled channels the dispatcher runs N independent
\* concurrent tasks: every channel's delivery can start without any other
\* channel's delivery having finished, so a delivery that blocks neither
\* prevents nor delays the start or the completion of a sibling.
C26_IndependentTasks ==
    /\ Cardinality(Spawned) <= Len(enabled)
    /\ Cardinality(Waiting) >= Cardinality(QueuedItems)
    /\ QueuedItems # {} => \E w \in Waiting : ENABLED WorkerGet(w)
    /\ \A w \in Running : ENABLED WorkerFinish(w)

\* the first channel of three is still in its delivery when both siblings,
\* submitted after it, have started and finished
C26_Witness ==
    /\ Len(enabled) = 3
    /\ status[enabled[1].name] = "running"
    /\ enabled[1].name \in NetworkChannels
    /\ \A i \in 2..3 : enabled[i].name \in Finished /\ enabled[i].name \in io

(***************************************************************************)
(* Termination, checked under SpecFair.                                    *)
(***************************************************************************)
\* C27: every network-bound delivery (telegram, slack, discord webhook POST
\* and the email SMTP session) has a finite timeout, so each delivery
\* attempt eventually ends in success or in a caught failure; under fair
\* scheduling main eventually returns for every set of enabled channels.
C27_EventuallyReturns ==
    /\ \A c \in ChannelNames :
          (status[c] = "running") ~> (status[c] \in {"done", "failed"})
    /\ (pc = "submit") ~> (pc = "returned")

\* main returned after a network delivery ran into its timeout
C27_Witness ==
    /\ Returned
    /\ \E c \in NetworkChannels \cap io :
          /\ status[c] = "failed"
          /\ \E i \in LinesNaming(c) :
                stderr[i].text = FailedPrefix(c) \o IoErrorText(c)
    /\ \E c \in NetworkChannels \cap io : status[c] = "done"

(***************************************************************************)
(* The event and the configuration during dispatch, checked under Spec.    *)
(***************************************************************************)
EventProduced == pc \notin {"start"}
ConfigProduced == pc \notin {"start", "load"}
\* every sender called so far got the event and its own entry of the table
ReceivedOwn ==
    \A c \in Invoked :
        /\ gotev[c] = event_info
        /\ gotcfg[c] = ChannelsOf(config).v[c]

\* C28: dispatch leaves the event and the loaded configuration unchanged:
\* from the moment the event is produced until main returns no sender and
\* no dispatcher step modifies them, every sender receives the same event
\* value, and each receives exactly the configuration entry stored under
\* its own channel name.
C28_EventAndConfigFrozen ==
    /\ []ReceivedOwn
    /\ [][EventProduced => event_info' = event_info]_vars
    /\ [][ConfigProduced => config' = config]_vars

\* three senders ran, each with its own entry, all with the one event
C28_Witness ==
    /\ Returned
    /\ Cardinality(Invoked) = 3
    /\ ReceivedOwn
    /\ \A c, d \in Invoked : c # d => gotcfg[c] # gotcfg[d]
    /\ \A c \in Invoked : gotev[c].platform = "claude_code"

(***************************************************************************)
(* The sessionStart and hook_event_name detectors, checked under SpecParse.*)
(***************************************************************************)
HasSourceOnly ==
    /\ IsObjectInput /\ HasKey(Payload, "source")
    /\ ~HasKey(Payload, "toolName") /\ ~HasKey(Payload, "notification_type")
IsSessionStart ==
    /\ event_info.platform = "copilot_cli"
    /\ IsStrEq(event_info.event, "sessionStart")
    /\ IsStrEq(event_info.message, "Session started (" \o PyStr(Payload.v["source"]) \o ")")

\* C29 as stated: every payload that contains source but neither toolName
\* nor notification_type gives copilot_cli / sessionStart / "Session started
\* (<source>)".
C29_SourceAlways ==
    (Parsed /\ HasSourceOnly) => IsSessionStart

\* C29: every payload that contains source but none of toolName,
\* notification_type and reason gives copilot_cli / sessionStart and the
\* message "Session started (<source>)" naming the source value.
C29_SourceWithoutReason ==
    (Parsed /\ HasSourceOnly /\ ~HasKey(Payload, "reason")) => IsSessionStart

\* source next to the keys of later detectors
C29_Witness ==
    /\ Parsed /\ HasSourceOnly /\ ~HasKey(Payload, "reason")
    /\ HasKey(Payload, "hook_event_name") /\ HasKey(Payload, "type")
    /\ IsStrEq(event_info.message, "Session started (terminal)")

HookName == Payload.v["hook_event_name"]
\* the payload passes the four earlier detectors and names a hook
HookHandled ==
    /\ IsObjectInput
    /\ ~HasKey(Payload, "notification_type")
    /\ ~(HasKey(Payload, "reason") /\ ~HasKey(Payload, "toolName"))
    /\ ~(HasKey(Payload, "toolName") /\ HasKey(Payload, "toolResult"))
    /\ ~(HasKey(Payload, "source") /\ ~HasKey(Payload, "toolName"))
    /\ HasKey(Payload, "hook_event_name") /\ Truthy(HookName)
MentionsCursor ==
    /\ HasKey(Payload, "agent") /\ IsStr(Payload.v["agent"])
    /\ Contains(Lower(Payload.v["agent"].v), "cursor")
KnownHooks == {"sessionEnd", "stop", "postToolUse", "afterFileEdit"}

\* C30: for every payload handled by the hook_event_name detector the event
\* kind is the hook_event_name value, the platform is cursor exactly when
\* the agent field contains "cursor" in any case and copilot_cli otherwise,
\* also without an agent, and a hook name other than sessionEnd, stop,
\* postToolUse and afterFileEdit is passed through verbatim as the message.
C30_HookEvent ==
    (Parsed /\ HookHandled) =>
        /\ Same(event_info.event, HookName)
        /\ event_info.platform = IF MentionsCursor THEN "cursor" ELSE "copilot_cli"
        /\ ~(\E h \in KnownHooks : IsStrEq(HookName, h)) => Same(event_info.message, HookName)

\* an editor name in capitals with a hook name of its own
C30_Witness ==
    /\ Parsed /\ HookHandled
    /\ MentionsCursor
    /\ IsStrEq(Payload.v["agent"], "Cursor IDE")
    /\ IsStrEq(HookName, "custom")
    /\ event_info.platform = "cursor"
    /\ IsStrEq(event_info.message, "custom")

====
